---- MODULE Spec2Model ----
(***************************************************************************)
(* State-vector model of the Grover search core of quantumlogic-chip-tech: *)
(* src/qlct/algorithms/{sim_circuit,grover,amp_est}.py and the service     *)
(* wrappers of src/qlct/pipeline/service.py.                               *)
(*                                                                         *)
(* Every gate the circuit uses (H, X, MCX) has a real matrix, so every     *)
(* amplitude is an integer over a power of sqrt(2).  A state vector is     *)
(* kept exactly as [a |-> integers, k |-> exponent]: amplitude i is        *)
(* a[i] / sqrt(2)^k, and its probability is a[i]^2 / 2^k.                   *)
(***************************************************************************)
EXTENDS Integers, Sequences, FiniteSets, TLC

\* rng   the process-wide generator state (np.random)
\* last  the most recent call: its arguments, its locals and how it ended
\* memo  an earlier score call a caller kept (arguments and result), and
\*       whether an estimate call has run since
\* sim   a circuit being assembled gate by gate, with the vector it denotes
\* box   the payload-protection data path: payload, key, ciphertext, result
\* http  the API process: the request in hand and the response it got
VARIABLES rng, last, memo, sim, box, http, store, limits

\* ------------------------------------------------------------------ bounds
MaxQubits == 3
MaxShots == 2
\* Size of the state space of the abstract process-wide generator.
RngMod == 8

Pow2(e) == 2 ^ e

\* ((t >> q) & 1) on a Python int: arithmetic (floor) shift, two's complement.
Bit(t, q) == (t \div Pow2(q)) % 2

\* i XOR (1 << q)
FlipBit(i, q) == IF Bit(i, q) = 0 THEN i + Pow2(q) ELSE i - Pow2(q)

\* ------------------------------------------------------------------- gates
\* qc.h(q), qc.x(q), qc.mcx(controls, q): one appended instruction each.
HGate(q) == [kind |-> "h", q |-> q, ctrls |-> {}]
XGate(q) == [kind |-> "x", q |-> q, ctrls |-> {}]
MCXGate(ctrls, q) == [kind |-> "mcx", q |-> q, ctrls |-> ctrls]

\* qc.mcx builds a controlled gate; the library's ControlledGate refuses a
\* number of control qubits below 1 (CircuitError).
McxAccepted(ctrls) == Cardinality(ctrls) >= 1

\* Mutant: the Hadamard loop hits qubit 0 on every turn.
Superposition_SameQubit(n) == [i \in 1..n |-> HGate(0)]

\* Step 1: for q in range(n): qc.h(q)
Superposition(n) == [i \in 1..n |-> HGate(i - 1)]

RECURSIVE OracleFlipsFrom(_, _, _)
OracleFlipsFrom(n, t, q) ==
    IF q >= n THEN << >>
    ELSE (IF Bit(t, q) = 0 THEN << XGate(q) >> ELSE << >>)
         \o OracleFlipsFrom(n, t, q + 1)

\* Mutant: only the lowest qubit is remapped.
OracleFlips_LowestOnly(n, t) == IF Bit(t, 0) = 0 THEN << XGate(0) >> ELSE << >>

\* for q in range(n): if ((t >> q) & 1) == 0: qc.x(q)
OracleFlips(n, t) == OracleFlipsFrom(n, t, 0)

\* qc.h(n-1); qc.mcx(list(range(n-1)), n-1); qc.h(n-1)
PhaseFlipSandwich(n) ==
    << HGate(n - 1), MCXGate(0..(n - 2), n - 1), HGate(n - 1) >>

\* Mutant: the oracle's bit flips are left out (the all-ones state is marked).
Oracle_NoFlips(n, t) == PhaseFlipSandwich(n)

\* Step 2: the oracle
Oracle(n, t) == OracleFlips(n, t) \o PhaseFlipSandwich(n) \o OracleFlips(n, t)

\* for q in range(n): qc.h(q); qc.x(q)
DiffusionIn(n) ==
    [i \in 1..(2 * n) |-> IF i % 2 = 1 THEN HGate((i - 1) \div 2)
                                       ELSE XGate((i - 1) \div 2)]

\* Mutant: the basis change is repeated instead of undone.
DiffusionOut_Repeated(n) ==
    [i \in 1..(2 * n) |-> IF i % 2 = 1 THEN HGate((i - 1) \div 2)
                                       ELSE XGate((i - 1) \div 2)]

\* for q in range(n): qc.x(q); qc.h(q)
DiffusionOut(n) ==
    [i \in 1..(2 * n) |-> IF i % 2 = 1 THEN XGate((i - 1) \div 2)
                                       ELSE HGate((i - 1) \div 2)]

\* Mutant: the diffusion's phase flip is left out.
Diffusion_NoPhaseFlip(n) == DiffusionIn(n) \o DiffusionOut(n)

\* Step 3: the diffusion operator
Diffusion(n) == DiffusionIn(n) \o PhaseFlipSandwich(n) \o DiffusionOut(n)

\* Mutant: the oracle and the diffusion are issued twice.
build_search_circuit_TwoIterations(n, t) ==
    IF McxAccepted(0..(n - 2))
    THEN [err |-> "none", n |-> n,
          gates |-> Superposition(n) \o Oracle(n, t) \o Diffusion(n)
                    \o Oracle(n, t) \o Diffusion(n)]
    ELSE [err |-> "CircuitError", n |-> n, gates |-> << >>]

\* build_search_circuit(cfg): the circuit, or the error the first refused
\* instruction raises.
build_search_circuit(n, t) ==
    IF McxAccepted(0..(n - 2))
    THEN [err |-> "none", n |-> n,
          gates |-> Superposition(n) \o Oracle(n, t) \o Diffusion(n)]
    ELSE [err |-> "CircuitError", n |-> n, gates |-> << >>]

\* --------------------------------------------------------------- simulator
\* |0...0>
ZeroState(n) == [a |-> [i \in 0..(Pow2(n) - 1) |-> IF i = 0 THEN 1 ELSE 0],
                 k |-> 0]

\* Mutant: the 1/sqrt2 of the Hadamard is dropped.
ApplyH_Unnormalised(st, q) ==
    [a |-> [i \in DOMAIN st.a |->
               IF Bit(i, q) = 0 THEN st.a[i] + st.a[FlipBit(i, q)]
                                ELSE st.a[FlipBit(i, q)] - st.a[i]],
     k |-> st.k]

\* (a0, a1) -> ((a0 + a1)/sqrt2, (a0 - a1)/sqrt2) on every pair differing in bit q
ApplyH(st, q) ==
    [a |-> [i \in DOMAIN st.a |->
               IF Bit(i, q) = 0 THEN st.a[i] + st.a[FlipBit(i, q)]
                                ELSE st.a[FlipBit(i, q)] - st.a[i]],
     k |-> st.k + 1]

\* Mutant: the lower entry of a pair is overwritten, the upper one kept.
ApplyMCX_Copy(st, ctrls, q) ==
    [a |-> [i \in DOMAIN st.a |->
               IF (\A c \in ctrls : Bit(i, c) = 1) /\ Bit(i, q) = 0
               THEN st.a[FlipBit(i, q)] ELSE st.a[i]],
     k |-> st.k]

\* swap the pair (i, i XOR (1<<q)) where every control bit of i is 1
ApplyMCX(st, ctrls, q) ==
    [a |-> [i \in DOMAIN st.a |->
               IF \A c \in ctrls : Bit(i, c) = 1 THEN st.a[FlipBit(i, q)]
                                                 ELSE st.a[i]],
     k |-> st.k]

ApplyX(st, q) == ApplyMCX(st, {}, q)

ApplyGate(st, g) ==
    CASE g.kind = "h" -> ApplyH(st, g.q)
      [] g.kind = "x" -> ApplyX(st, g.q)
      [] g.kind = "mcx" -> ApplyMCX(st, g.ctrls, g.q)

\* The vector after gates i.. of the list have acted on st, one after the
\* other.  (The comparison makes TLC compute each intermediate vector once,
\* in full, where it would otherwise recompute entries on every read.)
RECURSIVE Evolve(_, _, _)
Evolve(st, gates, i) ==
    IF i > Len(gates) THEN st
    ELSE LET nxt == ApplyGate(st, gates[i])
         IN IF nxt.a = nxt.a THEN Evolve(nxt, gates, i + 1) ELSE st

\* Statevector.from_instruction(qc)
Statevector(qc) == Evolve(ZeroState(qc.n), qc.gates, 1)

\* Mutant: the amplitudes are squared with their exponent left as it was.
statevector_probs_ExponentKept(qc) ==
    LET sv == Statevector(qc)
    IN [num |-> [i \in DOMAIN sv.a |-> sv.a[i] * sv.a[i]],
        den |-> Pow2(sv.k \div 2)]

\* abs(sv.data) ** 2 : entry i is num[i] / den
statevector_probs(qc) ==
    LET sv == Statevector(qc)
    IN [num |-> [i \in DOMAIN sv.a |-> sv.a[i] * sv.a[i]], den |-> Pow2(sv.k)]

RECURSIVE SumUpTo(_, _)
SumUpTo(f, i) == IF i < 0 THEN 0 ELSE f[i] + SumUpTo(f, i - 1)

\* ------------------------------------------------------- the two read-outs
NoProbs == [num |-> << >>, den |-> 1]

\* Mutant: the read-out index is off by one.
WrapIndex_OffByOne(t, N) == (t + 1) % N

\* probs[target] on a numpy array of length N: a negative index counts from
\* the end, anything outside -N..N-1 raises IndexError.
IndexInRange(t, N) == -N <= t /\ t <= N - 1

WrapIndex(t, N) == IF t < 0 THEN N + t ELSE t

\* grover_score(n_qubits, target): what the call does and how it ends.
grover_score(n, t) ==
    LET qc == build_search_circuit(n, t)
    IN IF qc.err # "none"
       THEN [outcome |-> qc.err, built |-> FALSE, simulated |-> FALSE,
             probs |-> NoProbs, num |-> 0, den |-> 1]
       ELSE LET probs == statevector_probs(qc)
                N == Cardinality(DOMAIN probs.num)
            IN IF IndexInRange(t, N)
               THEN [outcome |-> "value", built |-> TRUE, simulated |-> TRUE,
                     probs |-> probs,
                     num |-> probs.num[WrapIndex(t, N)], den |-> probs.den]
               ELSE [outcome |-> "IndexError", built |-> TRUE,
                     simulated |-> TRUE, probs |-> probs, num |-> 0, den |-> 1]

\* ----------------------------------------------------------------- sampling
\* The process-wide generator behind np.random.choice, abstracted to a
\* deterministic generator over RngMod states; one step per uniform draw,
\* the draw being s / RngMod in [0, 1).
RngStep(s) == (5 * s + 3) % RngMod

\* Mutant: searchsorted with side='left'.
SearchSorted_Left(probs, s) ==
    LET N == Cardinality(DOMAIN probs.num)
        total == SumUpTo(probs.num, N - 1)
    IN Cardinality({j \in 0..(N - 1) :
                       SumUpTo(probs.num, j) * RngMod < s * total})

\* cdf = p.cumsum(); cdf /= cdf[-1]; cdf.searchsorted(u, side='right'):
\* the number of entries j with cdf[j] <= u, for u = s / RngMod.
SearchSorted(probs, s) ==
    LET N == Cardinality(DOMAIN probs.num)
        total == SumUpTo(probs.num, N - 1)
    IN Cardinality({j \in 0..(N - 1) :
                       SumUpTo(probs.num, j) * RngMod <= s * total})

\* np.random.choice(len(probs), size=shots, p=probs) from generator state s:
\* the samples and the state the generator is left in.
\* (The draws are made one after the other; a run of draws is evaluated as
\* its first half followed by its second half, which keeps the evaluation of
\* a long run shallow.  Each half is bound as a value, so that it is computed
\* once however often it is read.)
RECURSIVE Choice(_, _, _)
Choice(probs, shots, s) ==
    IF shots = 0 THEN [samples |-> << >>, rng |-> s]
    ELSE IF shots = 1
    THEN LET s1 == RngStep(s)
         IN [samples |-> << SearchSorted(probs, s1) >>, rng |-> s1]
    ELSE CHOOSE out \in
           UNION {{[samples |-> head.samples \o rest.samples, rng |-> rest.rng] :
                     rest \in {Choice(probs, shots - (shots \div 2), head.rng)}} :
                  head \in {Choice(probs, shots \div 2, s)}} : TRUE

\* Mutant: the comparison counts the samples up to the target.
CountEqual_UpTo(samples, target) ==
    Cardinality({j \in DOMAIN samples : samples[j] <= target})

\* (samples == target).sum()
CountEqual(samples, target) ==
    Cardinality({j \in DOMAIN samples : samples[j] = target})

\* amplitude_estimate(n_qubits, target, shots) with the generator in state s.
amplitude_estimate(n, t, shots, s) ==
    LET qc == build_search_circuit(n, t)
    IN IF qc.err # "none"
       THEN [outcome |-> qc.err, built |-> FALSE, simulated |-> FALSE,
             probs |-> NoProbs, samples |-> << >>, num |-> 0, den |-> 1,
             rng |-> s]
       ELSE CHOOSE out \in
              UNION {{[outcome |-> "value", built |-> TRUE, simulated |-> TRUE,
                       probs |-> probs, samples |-> ch.samples,
                       num |-> CountEqual(ch.samples, t), den |-> shots,
                       rng |-> ch.rng] :
                        ch \in {Choice(probs, shots, s)}} :
                     probs \in {statevector_probs(qc)}} : TRUE

\* estimate_amplitude(bits, target, shots)
estimate_amplitude(bits, target, shots, s) ==
    amplitude_estimate(bits, target, shots, s)

\* compute_quantum_score(bits, target)
compute_quantum_score(bits, target) == grover_score(bits, target)

\* -------------------------------------------------------------------- state
vars == << rng, last, memo, sim, box, http, store, limits >>

Qubits == 1..MaxQubits
\* Arguments a caller may pass: every valid target and some on either side.
TargetsFor(n) == (-Pow2(n) - 1)..Pow2(n)
EstimateTargetsFor(n) == -1..Pow2(n)
ShotCounts == 1..MaxShots

\* n >= 1 and 0 <= target < 2^n
ValidArgs(n, t) == n >= 1 /\ 0 <= t /\ t < Pow2(n)

NoCall == [op |-> "none", n |-> 0, target |-> 0, shots |-> 0,
           outcome |-> "none", built |-> FALSE, simulated |-> FALSE,
           probs |-> NoProbs, samples |-> << >>, num |-> 0, den |-> 1,
           rngBefore |-> 0]

NoMemo == [op |-> "none", n |-> 0, target |-> 0, outcome |-> "none",
           num |-> 0, den |-> 1, estimated |-> FALSE]

\* The calls are pure in their arguments (and the generator state): their
\* results are tabulated once over the arguments the callers use.
ScoreResults ==
    [n \in Qubits |-> [t \in TargetsFor(n) |-> compute_quantum_score(n, t)]]

EstimateResults ==
    [n \in Qubits |-> [t \in EstimateTargetsFor(n) |-> [shots \in ShotCounts |->
        [s \in 0..(RngMod - 1) |-> estimate_amplitude(n, t, shots, s)]]]]

\* Python values, tagged with their type.  Text is a sequence of character
\* codes; a dict is the sequence of its (key, value) items in insertion order.
PyInt(i) == [t |-> "int", v |-> i]
PyStr(s) == [t |-> "str", v |-> s]
PyList(xs) == [t |-> "list", v |-> xs]
PyTuple(xs) == [t |-> "tuple", v |-> xs]
PyDict(items) == [t |-> "dict", v |-> items]
NoValue == [t |-> "none", v |-> << >>]

\* No protect_payload result yet.
NoProtected == [ciphertext_hex |-> << >>, kem_ct_len |-> 0, key_len |-> 0,
                key |-> << >>]

\* Nothing has been protected or encrypted yet.
NoBox == [phase |-> "idle", outcome |-> "none", variant |-> "none",
          obj |-> 0, plain |-> << >>, key |-> << >>, ctext |-> << >>,
          out |-> << >>, prot |-> NoProtected, restored |-> NoValue]

\* No response yet.
NoResponse == [status |-> 0, keys |-> {}, detail |-> "",
               score |-> [num |-> 0, den |-> 1]]

\* The API process has served no request.
NoHttp == [phase |-> "idle", path |-> "", bits |-> 0, target |-> 0,
           shots |-> 0, defaulted |-> FALSE, payload |-> 0,
           computed |-> FALSE,
           resp |-> NoResponse]

NoGate == [kind |-> "none", q |-> 0, ctrls |-> {}]

\* No circuit is being assembled.
NoSim == [mode |-> "idle", n |-> 0, target |-> 0, pc |-> 0,
          st0 |-> ZeroState(0), st |-> ZeroState(0), gate |-> NoGate,
          err |-> "none"]

\* A dict with no entries.
EmptyDict == [k \in {} |-> 0]

\* float('inf'): above every time the clock can measure.
Infinity == 1000000

\* metrics_store as the module creates it, and no request in flight.
NoStore == [total_requests |-> 0, avg_response_time |-> 0,
            endpoint_stats |-> EmptyDict, pending |-> EmptyDict]

\* QuantumRateLimiter(): self.requests = {}; the clock is in minute window
\* 0 and nothing has been asked of the limiter or of the middleware.
NoLimits == [requests |-> EmptyDict, window |-> 0, client |-> "none",
             path |-> "", allowed |-> FALSE, status |-> 0,
             granted |-> EmptyDict]

\* The generator is seeded from the operating system when the process starts.
Init ==
    /\ rng \in 0..(RngMod - 1)
    /\ last = NoCall
    /\ memo = NoMemo
    /\ sim = NoSim
    /\ box = NoBox
    /\ http = NoHttp
    /\ store = NoStore
    /\ limits = NoLimits

\* Mutant: the distribution of the previous call over the same number of
\* qubits is reused instead of simulating afresh.
ScoreCall_ReusedVector(n, t) ==
    LET fresh == ScoreResults[n][t]
        stale == last.simulated /\ last.n = n /\ fresh.outcome = "value"
        r == IF stale
             THEN [fresh EXCEPT
                     !.probs = last.probs,
                     !.num = last.probs.num[
                                WrapIndex(t, Cardinality(DOMAIN last.probs.num))],
                     !.den = last.probs.den]
             ELSE fresh
    IN /\ last' = [op |-> "score", n |-> n, target |-> t, shots |-> 0,
                   outcome |-> r.outcome, built |-> r.built,
                   simulated |-> r.simulated, probs |-> r.probs,
                   samples |-> << >>, num |-> r.num, den |-> r.den,
                   rngBefore |-> rng]
       /\ UNCHANGED << rng, memo, sim, box, http, store, limits >>

\* A caller runs compute_quantum_score(n, t) to completion.
ScoreCall(n, t) ==
    LET r == ScoreResults[n][t]
    IN /\ last' = [op |-> "score", n |-> n, target |-> t, shots |-> 0,
                   outcome |-> r.outcome, built |-> r.built,
                   simulated |-> r.simulated, probs |-> r.probs,
                   samples |-> << >>, num |-> r.num, den |-> r.den,
                   rngBefore |-> rng]
       /\ UNCHANGED << rng, memo, sim, box, http, store, limits >>

\* A caller runs estimate_amplitude(n, t, shots) to completion.
EstimateCall(n, t, shots) ==
    LET r == EstimateResults[n][t][shots][rng]
    IN /\ last' = [op |-> "estimate", n |-> n, target |-> t, shots |-> shots,
                   outcome |-> r.outcome, built |-> r.built,
                   simulated |-> r.simulated, probs |-> r.probs,
                   samples |-> r.samples, num |-> r.num, den |-> r.den,
                   rngBefore |-> rng]
       /\ rng' = r.rng
       /\ memo' = IF memo.op = "none" THEN memo
                  ELSE [memo EXCEPT !.estimated = TRUE]
       /\ UNCHANGED << sim, box, http, store, limits >>

\* The caller keeps the score it just got:  s = grover_score(...)
Remember ==
    /\ last.op = "score"
    /\ memo' = [op |-> last.op, n |-> last.n, target |-> last.target,
                outcome |-> last.outcome, num |-> last.num, den |-> last.den,
                estimated |-> FALSE]
    /\ UNCHANGED << rng, last, sim, box, http, store, limits >>

Next ==
    \/ \E n \in Qubits : \E t \in TargetsFor(n) : ScoreCall(n, t)
    \/ \E n \in Qubits : \E t \in EstimateTargetsFor(n) :
           \E shots \in ShotCounts : EstimateCall(n, t, shots)
    \/ Remember

Spec == Init /\ [][Next]_vars

\* ------------------------------------------------- scores at larger sizes
\* Widest register whose score is computed when sizes are compared.
MaxWideQubits == 5

WideQubits == 1..MaxWideQubits

WideResults ==
    [n \in WideQubits |-> [t \in TargetsFor(n) |-> compute_quantum_score(n, t)]]

InitScale ==
    /\ rng = 0
    /\ last = NoCall
    /\ memo = NoMemo
    /\ sim = NoSim
    /\ box = NoBox
    /\ http = NoHttp
    /\ store = NoStore
    /\ limits = NoLimits

\* A caller runs compute_quantum_score(n, t) to completion, at any of the
\* larger sizes as well.
ScoreAt(n, t) ==
    LET r == WideResults[n][t]
    IN /\ last' = [op |-> "score", n |-> n, target |-> t, shots |-> 0,
                   outcome |-> r.outcome, built |-> r.built,
                   simulated |-> r.simulated, probs |-> r.probs,
                   samples |-> << >>, num |-> r.num, den |-> r.den,
                   rngBefore |-> rng]
       /\ UNCHANGED << rng, memo, sim, box, http, store, limits >>

NextScale ==
    \/ \E n \in WideQubits : \E t \in TargetsFor(n) : ScoreAt(n, t)
    \/ Remember

SpecScale == InitScale /\ [][NextScale]_vars

\* ------------------------------------------------- the circuit, gate by gate
\* Longest circuit a caller assembles by hand.
MaxFreeGates == 2

\* The instructions build_search_circuit issues, in program order.
Instructions(n, t) == Superposition(n) \o Oracle(n, t) \o Diffusion(n)

\* The gates a caller can append to a circuit over n qubits.
GatesOver(n) ==
    {HGate(q) : q \in 0..(n - 1)} \cup {XGate(q) : q \in 0..(n - 1)}
    \cup UNION {{MCXGate(C, q) : C \in SUBSET ((0..(n - 1)) \ {q})} :
                   q \in 0..(n - 1)}

\* One qc.h / qc.x / qc.mcx call on the circuit s: the instruction is
\* appended and the vector the circuit denotes moves on, or the call raises
\* and the circuit stays as it was.
Appended(s, g) ==
    IF g.kind = "mcx" /\ ~McxAccepted(g.ctrls)
    THEN [s EXCEPT !.gate = g, !.err = "CircuitError"]
    ELSE [s EXCEPT !.gate = g, !.pc = @ + 1, !.st = ApplyGate(s.st, g)]

InitGates ==
    /\ rng = 0
    /\ last = NoCall
    /\ memo = NoMemo
    /\ sim = NoSim
    /\ box = NoBox
    /\ http = NoHttp
    /\ store = NoStore
    /\ limits = NoLimits

\* build_search_circuit(n, t) starts:  qc = QuantumCircuit(n)
BeginBuild(n, t) ==
    /\ sim' = [mode |-> "build", n |-> n, target |-> t, pc |-> 0,
               st0 |-> ZeroState(n), st |-> ZeroState(n), gate |-> NoGate,
               err |-> "none"]
    /\ UNCHANGED << rng, last, memo, box, http, store, limits >>

\* build_search_circuit issues its next instruction.
BuildStep ==
    /\ sim.mode = "build"
    /\ sim.err = "none"
    /\ sim.pc < Len(Instructions(sim.n, sim.target))
    /\ sim' = Appended(sim, Instructions(sim.n, sim.target)[sim.pc + 1])
    /\ UNCHANGED << rng, last, memo, box, http, store, limits >>

\* A caller starts a circuit of its own:  qc = QuantumCircuit(n)
BeginFree(n) ==
    /\ sim' = [mode |-> "free", n |-> n, target |-> 0, pc |-> 0,
               st0 |-> ZeroState(n), st |-> ZeroState(n), gate |-> NoGate,
               err |-> "none"]
    /\ UNCHANGED << rng, last, memo, box, http, store, limits >>

\* The caller appends one gate to it.
FreeGate(g) ==
    /\ sim.mode = "free"
    /\ sim.err = "none"
    /\ sim.pc < MaxFreeGates
    /\ g \in GatesOver(sim.n)
    /\ sim' = Appended(sim, g)
    /\ UNCHANGED << rng, last, memo, box, http, store, limits >>

\* The vector of a circuit that flips the qubits xs of |0...0> and then
\* puts the qubits hs into superposition: every basis vector (hs empty) and
\* signed superpositions of them.
RECURSIVE GatesOn(_, _, _)
GatesOn(kind, qs, q) ==
    IF q < 0 THEN << >>
    ELSE GatesOn(kind, qs, q - 1)
         \o (IF q \in qs THEN << [kind |-> kind, q |-> q, ctrls |-> {}] >>
                          ELSE << >>)

Prepared(n, xs, hs) ==
    Evolve(ZeroState(n), GatesOn("x", xs, n - 1) \o GatesOn("h", hs, n - 1), 1)

\* The oracle instructions (step 2) are issued on a freshly prepared circuit.
BeginOracle(n, t, xs, hs) ==
    /\ sim.mode = "idle"
    /\ \E v \in {Prepared(n, xs, hs)} :
          sim' = [mode |-> "oracle", n |-> n, target |-> t, pc |-> 0,
                  st0 |-> v, st |-> v, gate |-> NoGate, err |-> "none"]
    /\ UNCHANGED << rng, last, memo, box, http, store, limits >>

\* The diffusion instructions (step 3) are issued on a freshly prepared
\* circuit.
BeginDiffusion(n, xs, hs) ==
    /\ sim.mode = "idle"
    /\ \E v \in {Prepared(n, xs, hs)} :
          sim' = [mode |-> "diffusion", n |-> n, target |-> 0, pc |-> 0,
                  st0 |-> v, st |-> v, gate |-> NoGate, err |-> "none"]
    /\ UNCHANGED << rng, last, memo, box, http, store, limits >>

StepGates(s) ==
    IF s.mode = "oracle" THEN Oracle(s.n, s.target) ELSE Diffusion(s.n)

\* The next instruction of the step is issued.
StepGate ==
    /\ sim.mode \in {"oracle", "diffusion"}
    /\ sim.err = "none"
    /\ sim.pc < Len(StepGates(sim))
    /\ sim' = Appended(sim, StepGates(sim)[sim.pc + 1])
    /\ UNCHANGED << rng, last, memo, box, http, store, limits >>

NextGates ==
    \/ \E n \in Qubits : \E t \in 0..(Pow2(n) - 1) : BeginBuild(n, t)
    \/ BuildStep
    \/ \E n \in Qubits : BeginFree(n)
    \/ \E g \in GatesOver(MaxQubits) : FreeGate(g)
    \/ \E n \in Qubits : \E t \in 0..(Pow2(n) - 1) :
          \E xs, hs \in SUBSET (0..(n - 1)) : BeginOracle(n, t, xs, hs)
    \/ \E n \in Qubits : \E xs, hs \in SUBSET (0..(n - 1)) :
          BeginDiffusion(n, xs, hs)
    \/ StepGate

SpecGates == InitGates /\ [][NextGates]_vars

\* --------------------------------------------------------- the XOR cipher
\* Byte strings are sequences over 0..255.
MaxLen == 3
MaxKeyLen == 2

RECURSIVE XorFrom(_, _, _)
XorFrom(a, b, i) ==
    IF i > 7 THEN 0
    ELSE ((Bit(a, i) + Bit(b, i)) % 2) * Pow2(i) + XorFrom(a, b, i + 1)

\* b ^ k on two bytes
ByteXor(a, b) == XorFrom(a, b, 0)

\* bytes([b ^ key[i % len(key)] for i, b in enumerate(plaintext)])
xor_encrypt(plaintext, key) ==
    [j \in 1..Len(plaintext) |->
        ByteXor(plaintext[j], key[((j - 1) % Len(key)) + 1])]

\* Mutant: decryption starts one byte further into the key.
xor_decrypt_Shifted(ciphertext, key) ==
    [j \in 1..Len(ciphertext) |->
        ByteXor(ciphertext[j], key[(j % Len(key)) + 1])]

\* return xor_encrypt(ciphertext, key)
xor_decrypt(ciphertext, key) == xor_encrypt(ciphertext, key)

\* key[i % len(key)] with an empty key divides by zero as soon as there is
\* a byte to encrypt.
XorRaises(text, key) == Len(key) = 0 /\ Len(text) > 0

\* The byte values the callers' strings are made of.
SampleBytes == {0, 90, 255}

RECURSIVE StringsOfLen(_, _)
StringsOfLen(S, n) ==
    IF n = 0 THEN {<< >>}
    ELSE {Append(s, b) : s \in StringsOfLen(S, n - 1), b \in S}

ByteStrings(maxLen) == UNION {StringsOfLen(SampleBytes, n) : n \in 0..maxLen}

\* ------------------------------------------------------------ json and hex
RECURSIVE DigitsOf(_)
DigitsOf(n) ==
    IF n < 10 THEN << 48 + n >> ELSE DigitsOf(n \div 10) \o << 48 + (n % 10) >>

\* str(i) for an int
IntText(i) == IF i < 0 THEN << 45 >> \o DigitsOf(-i) ELSE DigitsOf(i)

\* A dict key as json.dumps writes it: a str as it is, an int as its decimal
\* text.
KeyText(k) == IF k.t = "str" THEN k.v ELSE IntText(k.v)

RECURSIVE dumps(_), DumpItems(_, _), DumpMembers(_, _)
\* json.dumps(v) with the default separators (', ', ': '); a tuple is
\* written as an array.
dumps(v) ==
    CASE v.t = "int" -> IntText(v.v)
      [] v.t = "str" -> << 34 >> \o v.v \o << 34 >>
      [] v.t \in {"list", "tuple"} -> << 91 >> \o DumpItems(v.v, 1) \o << 93 >>
      [] v.t = "dict" -> << 123 >> \o DumpMembers(v.v, 1) \o << 125 >>

DumpItems(xs, i) ==
    IF i > Len(xs) THEN << >>
    ELSE (IF i > 1 THEN << 44, 32 >> ELSE << >>)
         \o dumps(xs[i]) \o DumpItems(xs, i + 1)

DumpMembers(ms, i) ==
    IF i > Len(ms) THEN << >>
    ELSE (IF i > 1 THEN << 44, 32 >> ELSE << >>)
         \o << 34 >> \o KeyText(ms[i][1]) \o << 34, 58, 32 >>
         \o dumps(ms[i][2]) \o DumpMembers(ms, i + 1)

\* What a parse step returns: the value read and the position after it.
ParseFail == [ok |-> FALSE, v |-> NoValue, nxt |-> 0]
Parsed(v, nxt) == [ok |-> TRUE, v |-> v, nxt |-> nxt]

At(s, i) == IF 1 <= i /\ i <= Len(s) THEN s[i] ELSE -1

RECURSIVE SkipWs(_, _)
SkipWs(s, i) == IF At(s, i) \in {32, 9, 10, 13} THEN SkipWs(s, i + 1) ELSE i

RECURSIVE ScanDigits(_, _, _)
ScanDigits(s, i, acc) ==
    IF At(s, i) \in 48..57 THEN ScanDigits(s, i + 1, 10 * acc + (s[i] - 48))
    ELSE [n |-> acc, nxt |-> i]

\* -?(0|[1-9][0-9]*) : the integers of the JSON grammar
ParseInt(s, i) ==
    LET neg == At(s, i) = 45
        start == IF neg THEN i + 1 ELSE i
    IN IF At(s, start) \notin 48..57 THEN ParseFail
       ELSE IF s[start] = 48 THEN Parsed(PyInt(0), start + 1)
       ELSE LET r == ScanDigits(s, start, 0)
            IN Parsed(PyInt(IF neg THEN -r.n ELSE r.n), r.nxt)

\* Position of the closing quote of the string whose text starts at j, or 0
\* (unterminated, a control character, or an escape the model does not read).
RECURSIVE ClosingQuote(_, _)
ClosingQuote(s, j) ==
    IF j > Len(s) \/ s[j] < 32 \/ s[j] = 92 THEN 0
    ELSE IF s[j] = 34 THEN j ELSE ClosingQuote(s, j + 1)

ParseString(s, i) ==
    IF At(s, i) # 34 THEN ParseFail
    ELSE LET j == ClosingQuote(s, i + 1)
         IN IF j = 0 THEN ParseFail
            ELSE Parsed(PyStr(SubSeq(s, i + 1, j - 1)), j + 1)

\* d[key] = val on the items of a dict: an existing key keeps its place and
\* takes the new value.
RECURSIVE PutItem(_, _, _, _)
PutItem(items, key, val, i) ==
    IF i > Len(items) THEN Append(items, << key, val >>)
    ELSE IF items[i][1].v = key.v
         THEN [items EXCEPT ![i] = << key, val >>]
         ELSE PutItem(items, key, val, i + 1)

RECURSIVE ParseValue(_, _), ParseElements(_, _, _), ParseMembers(_, _, _)
\* The JSON value that starts at position i of s.
ParseValue(s, i) ==
    LET c == At(s, i)
    IN CASE c = 34 -> ParseString(s, i)
         [] c = 45 \/ c \in 48..57 -> ParseInt(s, i)
         [] c = 91 -> IF At(s, SkipWs(s, i + 1)) = 93
                      THEN Parsed(PyList(<< >>), SkipWs(s, i + 1) + 1)
                      ELSE ParseElements(s, SkipWs(s, i + 1), << >>)
         [] c = 123 -> IF At(s, SkipWs(s, i + 1)) = 125
                       THEN Parsed(PyDict(<< >>), SkipWs(s, i + 1) + 1)
                       ELSE ParseMembers(s, SkipWs(s, i + 1), << >>)
         [] OTHER -> ParseFail

ParseElements(s, i, acc) ==
    LET r == ParseValue(s, i)
    IN IF ~r.ok THEN ParseFail
       ELSE LET j == SkipWs(s, r.nxt)
            IN CASE At(s, j) = 44 ->
                        ParseElements(s, SkipWs(s, j + 1), Append(acc, r.v))
                 [] At(s, j) = 93 -> Parsed(PyList(Append(acc, r.v)), j + 1)
                 [] OTHER -> ParseFail

ParseMembers(s, i, acc) ==
    LET k == ParseString(s, i)
    IN IF ~k.ok \/ At(s, SkipWs(s, k.nxt)) # 58 THEN ParseFail
       ELSE LET r == ParseValue(s, SkipWs(s, SkipWs(s, k.nxt) + 1))
            IN IF ~r.ok THEN ParseFail
               ELSE LET j == SkipWs(s, r.nxt)
                        items == PutItem(acc, k.v, r.v, 1)
                    IN CASE At(s, j) = 44 ->
                                ParseMembers(s, SkipWs(s, j + 1), items)
                         [] At(s, j) = 125 -> Parsed(PyDict(items), j + 1)
                         [] OTHER -> ParseFail

\* json.loads(text): the one value the whole text denotes, or a decode error.
loads(text) ==
    LET r == ParseValue(text, SkipWs(text, 1))
    IN IF r.ok /\ SkipWs(text, r.nxt) = Len(text) + 1 THEN r ELSE ParseFail

\* a == b on two Python values (ints, strs, lists, tuples, dicts)
RECURSIVE PyEq(_, _)
PyEq(a, b) ==
    /\ a.t = b.t
    /\ CASE a.t \in {"int", "str"} -> a.v = b.v
         [] a.t \in {"list", "tuple"} ->
                /\ Len(a.v) = Len(b.v)
                /\ \A i \in 1..Len(a.v) : PyEq(a.v[i], b.v[i])
         [] a.t = "dict" ->
                /\ Len(a.v) = Len(b.v)
                /\ \A i \in 1..Len(a.v) : \E j \in 1..Len(b.v) :
                       PyEq(a.v[i][1], b.v[j][1]) /\ PyEq(a.v[i][2], b.v[j][2])
         [] OTHER -> TRUE

\* Made of what JSON has: ints, strs, lists and dicts with str keys.
RECURSIVE JsonNative(_)
JsonNative(v) ==
    CASE v.t \in {"int", "str"} -> TRUE
      [] v.t = "list" -> \A i \in 1..Len(v.v) : JsonNative(v.v[i])
      [] v.t = "dict" -> \A i \in 1..Len(v.v) :
                             v.v[i][1].t = "str" /\ JsonNative(v.v[i][2])
      [] OTHER -> FALSE

HexDigit(v) == IF v < 10 THEN 48 + v ELSE 87 + v

\* Mutant: the two hex digits of every byte are written in the other order.
hex_NibblesSwapped(bs) ==
    [j \in 1..(2 * Len(bs)) |->
        HexDigit(IF j % 2 = 1 THEN bs[(j + 1) \div 2] % 16
                              ELSE bs[j \div 2] \div 16)]

\* bytes.hex(): two lower-case hex digits per byte, high nibble first
hex(bs) ==
    [j \in 1..(2 * Len(bs)) |->
        HexDigit(IF j % 2 = 1 THEN bs[(j + 1) \div 2] \div 16
                              ELSE bs[j \div 2] % 16)]

HexValue(c) ==
    IF c \in 48..57 THEN c - 48
    ELSE IF c \in 97..102 THEN c - 87
    ELSE IF c \in 65..70 THEN c - 55 ELSE -1

\* bytes.fromhex(h) raises ValueError on an odd length or a non-hex digit.
FromHexRaises(h) ==
    Len(h) % 2 = 1 \/ \E j \in 1..Len(h) : HexValue(h[j]) = -1

fromhex(h) ==
    [j \in 1..(Len(h) \div 2) |->
        16 * HexValue(h[2 * j - 1]) + HexValue(h[2 * j])]

\* str.encode(): json.dumps writes ASCII only, one byte per character.
encode(text) == text

\* bytes.decode(): a byte above 127 that is not part of a well-formed
\* multi-byte sequence raises UnicodeDecodeError; ASCII decodes to itself.
DecodeRaises(bs) == \E j \in 1..Len(bs) : bs[j] > 127

decode(bs) == bs

\* ------------------------------------------------------------ the KEM
\* b"stub-public-key", b"stub-ciphertext"
StubPublicKey ==
    << 115, 116, 117, 98, 45, 112, 117, 98, 108, 105, 99, 45, 107, 101, 121 >>
StubCiphertext ==
    << 115, 116, 117, 98, 45, 99, 105, 112, 104, 101, 114, 116, 101, 120, 116 >>

\* b"0123456789abcdef"
StubKey ==
    << 48, 49, 50, 51, 52, 53, 54, 55, 56, 57, 97, 98, 99, 100, 101, 102 >>

\* b"0123456789abcdef0123456789abcdef"
StubSecret == StubKey \o StubKey

\* b"quantumlogic-key"
FallbackKey ==
    << 113, 117, 97, 110, 116, 117, 109, 108, 111, 103, 105, 99, 45, 107,
       101, 121 >>

\* The randomness of one ML-KEM encapsulation; each value stands for one
\* 32-byte shared secret the library can hand back.  Randomness 1 stands for
\* b"0123456789:;<=>?@A...", a secret that shares its first ten bytes with
\* the stub's; the other two share none.
Entropy == {1, 37, 201}

RealSecret(e) == [j \in 1..32 |-> (e * (j + 7) + 40) % 256]

\* The library's public key and ciphertext are opaque to the program (it
\* takes len(ct) only); they are represented by bytes derived from the
\* same randomness.
RealOpaque(e) == [j \in 1..32 |-> (e + j) % 256]

KemVariants == {"stub", "real"}

\* kem_keypair(): (pk, sk); variant "stub" is the path taken when import oqs
\* fails.
kem_keypair(variant, e) ==
    IF variant = "stub"
    THEN [pk |-> StubPublicKey,
          sk |-> << 115, 116, 117, 98, 45, 115, 101, 99, 114, 101, 116, 45,
                    107, 101, 121 >>]
    ELSE [pk |-> RealOpaque(e), sk |-> << >>]

\* kem_encapsulate(pk): (ct, ss)
kem_encapsulate(variant, pk, e) ==
    IF variant = "stub"
    THEN [ct |-> StubCiphertext, ss |-> StubSecret]
    ELSE [ct |-> RealOpaque(e + 1), ss |-> RealSecret(e)]

\* Mutant: the fallback key is used whatever the shared secret.
DeriveKey_AlwaysFallback(ss) == FallbackKey

\* ss[:16] if ss else b"quantumlogic-key"
DeriveKey(ss) ==
    IF Len(ss) > 0
    THEN SubSeq(ss, 1, IF Len(ss) < 16 THEN Len(ss) ELSE 16)
    ELSE FallbackKey

\* protect_payload(payload), with the KEM variant installed and the
\* randomness the encapsulation draws.
protect_payload(payload, variant, e) ==
    LET pk == kem_keypair(variant, e).pk
        enc == kem_encapsulate(variant, pk, e)
        key == DeriveKey(enc.ss)
        data == encode(dumps(payload))
        ctext == xor_encrypt(data, key)
    IN [ciphertext_hex |-> hex(ctext), kem_ct_len |-> Len(enc.ct),
        key_len |-> Len(key), key |-> hex(key)]

\* key_hex: a str, or None
SomeKey(h) == [given |-> TRUE, hex |-> h]
NoKey == [given |-> FALSE, hex |-> << >>]

\* restore_payload(ciphertext_hex, key_hex): how the call ends and what it
\* returns.
restore_payload(ciphertext_hex, key_hex) ==
    LET truthy == key_hex.given /\ Len(key_hex.hex) > 0
    IN IF truthy /\ FromHexRaises(key_hex.hex)
       THEN [outcome |-> "ValueError", v |-> NoValue]
       ELSE IF FromHexRaises(ciphertext_hex)
       THEN [outcome |-> "ValueError", v |-> NoValue]
       ELSE LET key == IF truthy THEN fromhex(key_hex.hex) ELSE StubKey
                c == fromhex(ciphertext_hex)
            IN IF XorRaises(c, key)
               THEN [outcome |-> "ZeroDivisionError", v |-> NoValue]
               ELSE LET p == xor_decrypt(c, key)
                    IN IF DecodeRaises(p)
                       THEN [outcome |-> "UnicodeDecodeError", v |-> NoValue]
                       ELSE LET r == loads(decode(p))
                            IN IF r.ok THEN [outcome |-> "value", v |-> r.v]
                               ELSE [outcome |-> "JSONDecodeError",
                                     v |-> NoValue]

\* The dictionaries the callers protect:
\*   {}  {"x": 1}  {"a": -7, "b": [1, 20]}  {"k": "v"}  {"o": {"i": []}}
\*   {1: 2}  {"t": (1, 2)}  {1: 0, "1": 5}
Payloads ==
    << PyDict(<< >>),
       PyDict(<< << PyStr(<< 120 >>), PyInt(1) >> >>),
       PyDict(<< << PyStr(<< 97 >>), PyInt(-7) >>,
                 << PyStr(<< 98 >>), PyList(<< PyInt(1), PyInt(20) >>) >> >>),
       PyDict(<< << PyStr(<< 107 >>), PyStr(<< 118 >>) >> >>),
       PyDict(<< << PyStr(<< 111 >>),
                    PyDict(<< << PyStr(<< 105 >>), PyList(<< >>) >> >>) >> >>),
       PyDict(<< << PyInt(1), PyInt(2) >> >>),
       PyDict(<< << PyStr(<< 116 >>), PyTuple(<< PyInt(1), PyInt(2) >>) >> >>),
       PyDict(<< << PyInt(1), PyInt(0) >>, << PyStr(<< 49 >>), PyInt(5) >> >>) >>

InitCrypto ==
    /\ rng = 0
    /\ last = NoCall
    /\ memo = NoMemo
    /\ sim = NoSim
    /\ box = NoBox
    /\ http = NoHttp
    /\ store = NoStore
    /\ limits = NoLimits

\* A caller's first call is c = xor_encrypt(p, k).
XorEncrypt(p, k) ==
    /\ box.phase = "idle"
    /\ box' = IF XorRaises(p, k)
              THEN [NoBox EXCEPT !.phase = "encrypted", !.plain = p, !.key = k,
                                 !.outcome = "ZeroDivisionError"]
              ELSE [NoBox EXCEPT !.phase = "encrypted", !.plain = p, !.key = k,
                                 !.outcome = "value",
                                 !.ctext = xor_encrypt(p, k)]
    /\ UNCHANGED << rng, last, memo, sim, http, store, limits >>

\* xor_decrypt(c, k) on the ciphertext just produced, under the same key
XorDecrypt ==
    /\ box.phase = "encrypted" /\ box.outcome = "value"
    /\ box' = [box EXCEPT !.phase = "decrypted",
                          !.out = xor_decrypt(box.ctext, box.key)]
    /\ UNCHANGED << rng, last, memo, sim, http, store, limits >>

\* xor_encrypt(c, k) on the ciphertext just produced, under the same key
XorEncryptAgain ==
    /\ box.phase = "encrypted" /\ box.outcome = "value"
    /\ box' = [box EXCEPT !.phase = "reencrypted",
                          !.out = xor_encrypt(box.ctext, box.key)]
    /\ UNCHANGED << rng, last, memo, sim, http, store, limits >>

\* A caller's first call is p = protect_payload(obj).
Protect(i, variant, e) ==
    /\ box.phase = "idle"
    /\ box' = [NoBox EXCEPT !.phase = "protected", !.outcome = "value",
                            !.obj = i, !.variant = variant,
                            !.prot = protect_payload(Payloads[i], variant, e)]
    /\ UNCHANGED << rng, last, memo, sim, http, store, limits >>

\* restore_payload(p["ciphertext_hex"], p["key"])
Restore ==
    /\ box.phase = "protected"
    /\ LET r == restore_payload(box.prot.ciphertext_hex, SomeKey(box.prot.key))
       IN box' = [box EXCEPT !.phase = "restored", !.outcome = r.outcome,
                             !.restored = r.v]
    /\ UNCHANGED << rng, last, memo, sim, http, store, limits >>

\* restore_payload(p["ciphertext_hex"]), as pipeline_demo calls it
RestoreKeyless ==
    /\ box.phase = "protected"
    /\ LET r == restore_payload(box.prot.ciphertext_hex, NoKey)
       IN box' = [box EXCEPT !.phase = "restored keyless",
                             !.outcome = r.outcome, !.restored = r.v]
    /\ UNCHANGED << rng, last, memo, sim, http, store, limits >>

NextCrypto ==
    \/ \E p \in ByteStrings(MaxLen) : \E k \in ByteStrings(MaxKeyLen) :
           XorEncrypt(p, k)
    \/ XorDecrypt
    \/ XorEncryptAgain
    \/ \E i \in 1..Len(Payloads) : \E variant \in KemVariants :
           \E e \in Entropy : Protect(i, variant, e)
    \/ Restore
    \/ RestoreKeyless

SpecCrypto == InitCrypto /\ [][NextCrypto]_vars

\* ------------------------------------------------------------ the HTTP API
\* Field(..., ge=2, le=10) / Field(..., ge=2, le=8) on bits and
\* Field(2000, ge=100, le=10000) on shots
MinBits == 2
ScoreMaxBits == 10
AmplitudeMaxBits == 8
MinShots == 100
MaxRequestShots == 10000
DefaultShots == 2000

\* ScoreRequest: bits in 2..10, target >= 0
ScoreRequestValid(b) ==
    MinBits <= b.bits /\ b.bits <= ScoreMaxBits /\ b.target >= 0

\* AmplitudeRequest(**body): a body is [bits, target, shots] with shots the
\* empty sequence when the field is absent; the model fills in the default.
AmplitudeRequest(body) ==
    [bits |-> body.bits, target |-> body.target,
     shots |-> IF body.shots = << >> THEN DefaultShots ELSE body.shots[1]]

\* Mutant: the lower limit on shots is not enforced.
AmplitudeRequestValid_NoMinShots(b) ==
    /\ MinBits <= b.bits /\ b.bits <= AmplitudeMaxBits /\ b.target >= 0
    /\ b.shots <= MaxRequestShots

\* AmplitudeRequest: bits in 2..8, target >= 0, shots in 100..10000
AmplitudeRequestValid(b) ==
    /\ MinBits <= b.bits /\ b.bits <= AmplitudeMaxBits /\ b.target >= 0
    /\ MinShots <= b.shots /\ b.shots <= MaxRequestShots

\* The response to a body the request model refuses.
ValidationError ==
    [NoResponse EXCEPT !.status = 422, !.keys = {"detail"},
                       !.detail = "validation error"]

\* raise HTTPException(status_code=..., detail=...)
HTTPException(status, detail) ==
    [type |-> "HTTPException", status |-> status, detail |-> detail]

\* Exceptions of other classes carry no status of their own.
Raise(type) == [type |-> type, status |-> 0, detail |-> ""]

\* The classes  except Exception  catches: every exception the handlers can
\* meet, HTTPException included.
ExceptionSubclasses ==
    {"HTTPException", "CircuitError", "IndexError", "AttributeError",
     "ValueError", "ZeroDivisionError", "TypeError"}

\* How a try body ends: with a value or with an exception in flight.
Returned(resp, computed, s) ==
    [raised |-> FALSE, exc |-> Raise("none"), resp |-> resp,
     computed |-> computed, rng |-> s]
Raising(exc, computed, s) ==
    [raised |-> TRUE, exc |-> exc, resp |-> NoResponse,
     computed |-> computed, rng |-> s]

\* except Exception as e: logger.error(...); raise HTTPException(500, detail)
ExceptException(body, detail) ==
    IF body.raised /\ body.exc.type \in ExceptionSubclasses
    THEN [body EXCEPT !.exc = HTTPException(500, detail)]
    ELSE body

\* The framework answers an HTTPException that leaves the handler with its
\* status and {"detail": detail}.
Respond(body) ==
    IF body.raised
    THEN [body EXCEPT !.resp = [NoResponse EXCEPT !.status = body.exc.status,
                                                  !.keys = {"detail"},
                                                  !.detail = body.exc.detail]]
    ELSE body

\* Mutant: the range check also refuses the largest target.
ExceedsMaximum_Inclusive(bits, target) == target >= Pow2(bits) - 1

\* max_target = (2 ** request.bits) - 1; request.target > max_target
ExceedsMaximum(bits, target) == target > Pow2(bits) - 1

\* The bits the API is asked to simulate in the model.
SimulatedBits == MinBits..MaxQubits

\* The shots the admitted requests over n bits carry: the lower limit, and
\* over the fewest bits the default too.
RequestShots(n) == IF n = MinBits THEN {MinShots, DefaultShots} ELSE {MinShots}

\* How estimate_amplitude(bits, target, shots) ends from generator state s,
\* the estimate, and the generator afterwards.
EstimateOutcome(n, t, shots, s) ==
    CHOOSE out \in {[outcome |-> r.outcome, num |-> r.num, den |-> r.den,
                     rng |-> r.rng] :
                      r \in {estimate_amplitude(n, t, shots, s)}} : TRUE

\* The same, tabulated once for the requests the clients post.
RequestEstimates ==
    [n \in SimulatedBits |-> [t \in 0..(Pow2(n) - 1) |->
        [shots \in RequestShots(n) |->
            [s \in 0..(RngMod - 1) |-> EstimateOutcome(n, t, shots, s)]]]]

RequestEstimate(n, t, shots, s) ==
    IF n \in SimulatedBits /\ t \in 0..(Pow2(n) - 1) /\ shots \in RequestShots(n)
    THEN RequestEstimates[n][t][shots][s]
    ELSE EstimateOutcome(n, t, shots, s)

\* quantum_score(request): the handler of POST /score
quantum_score(b, s) ==
    LET try ==
          IF ExceedsMaximum(b.bits, b.target)
          THEN Raising(HTTPException(400, "Target exceeds maximum"), FALSE, s)
          ELSE LET r == ScoreResults[b.bits][b.target]
               IN IF r.outcome # "value" THEN Raising(Raise(r.outcome), TRUE, s)
                  ELSE Returned(
                         [NoResponse EXCEPT
                            !.status = 200,
                            !.keys = {"score", "execution_time_ms",
                                      "search_space_size", "quantum_advantage"},
                            !.score = [num |-> r.num, den |-> r.den]],
                         TRUE, s)
    IN Respond(ExceptException(try, "Quantum computation failed"))

\* amplitude_estimation(request): the handler of POST /amplitude
amplitude_estimation(b, s) ==
    LET try ==
          IF ExceedsMaximum(b.bits, b.target)
          THEN Raising(HTTPException(400, "Target exceeds maximum"), FALSE, s)
          ELSE LET r == RequestEstimate(b.bits, b.target, b.shots, s)
               IN IF r.outcome # "value"
                  THEN Raising(Raise(r.outcome), TRUE, r.rng)
                  ELSE Returned(
                         [NoResponse EXCEPT
                            !.status = 200,
                            !.keys = {"estimated_probability", "shots_used",
                                      "execution_time_ms", "precision_metrics"},
                            !.score = [num |-> r.num, den |-> r.den]],
                         TRUE, r.rng)
    IN Respond(ExceptException(try, "Amplitude estimation failed"))

\* What a module-level name of fastapi_app is bound to, in the order the
\* module's statements bind it: the import from .service, then any def of
\* the same name.
GlobalBindings ==
    [compute_quantum_score |-> << "service" >>,
     estimate_amplitude |-> << "service" >>,
     protect_payload |-> << "service", "endpoint" >>,
     restore_payload |-> << "service", "endpoint" >>]

\* A global name read when a request is served is the last binding made.
Resolve(name) == GlobalBindings[name][Len(GlobalBindings[name])]

\* protect_payload(request): the handler of POST /protect.  Its call of
\* protect_payload(request.payload) goes to whatever the global name holds;
\* a call of the async endpoint function only makes a coroutine object,
\* which has no update().
protect_endpoint(i, variant, e, s) ==
    LET try ==
          IF Resolve("protect_payload") = "service"
          THEN LET result == protect_payload(Payloads[i], variant, e)
               IN Returned(
                    [NoResponse EXCEPT
                       !.status = 200,
                       !.keys = DOMAIN result \cup
                                {"encryption_time_ms", "algorithm",
                                 "security_level"}],
                    TRUE, s)
          ELSE Raising(Raise("AttributeError"), FALSE, s)
    IN Respond(ExceptException(try, "Encryption failed"))

\* The payloads a JSON request body can carry.
RequestPayloads == {i \in 1..Len(Payloads) : JsonNative(Payloads[i])}

\* The bodies clients post: every bits up to the largest the model simulates
\* with targets around the valid range, and one bits past the upper limit.
ScoreBodies ==
    UNION {{[bits |-> b, target |-> t] : t \in (-1)..Pow2(b)} :
              b \in 0..MaxQubits}
    \cup {[bits |-> ScoreMaxBits + 1, target |-> 0]}

AmplitudeBodies ==
    UNION {{[bits |-> b, target |-> t, shots |-> << n >>] :
               t \in (-1)..Pow2(b),
               n \in {MinShots - 1, MinShots, MaxRequestShots + 1}} :
              b \in 0..MaxQubits}
    \cup {[bits |-> AmplitudeMaxBits + 1, target |-> 0, shots |-> << MinShots >>]}
    \cup {[bits |-> b, target |-> t, shots |-> << >>] :
             b \in {MinBits - 1, MinBits}, t \in (-1)..Pow2(MinBits)}

InitHttp ==
    /\ rng \in 0..(RngMod - 1)
    /\ last = NoCall
    /\ memo = NoMemo
    /\ sim = NoSim
    /\ box = NoBox
    /\ http = NoHttp
    /\ store = NoStore
    /\ limits = NoLimits

\* POST /score with body b, from receipt to response.
PostScore(b) ==
    /\ \E out \in {IF ScoreRequestValid(b) THEN quantum_score(b, rng)
                   ELSE Returned(ValidationError, FALSE, rng)} :
         http' = [NoHttp EXCEPT !.phase = "done", !.path = "/score",
                                !.bits = b.bits, !.target = b.target,
                                !.computed = out.computed, !.resp = out.resp]
    /\ UNCHANGED << rng, last, memo, sim, box, store, limits >>

\* POST /amplitude with body b, from receipt to response.
PostAmplitude(b) ==
    /\ \E out \in {IF AmplitudeRequestValid(AmplitudeRequest(b))
                   THEN amplitude_estimation(AmplitudeRequest(b), rng)
                   ELSE Returned(ValidationError, FALSE, rng)} :
         /\ http' = [NoHttp EXCEPT !.phase = "done", !.path = "/amplitude",
                                   !.bits = b.bits, !.target = b.target,
                                   !.shots = AmplitudeRequest(b).shots,
                                   !.defaulted = (b.shots = << >>),
                                   !.computed = out.computed,
                                   !.resp = out.resp]
         /\ rng' = out.rng
    /\ UNCHANGED << last, memo, sim, box, store, limits >>

\* POST /protect with {"payload": Payloads[i]}, from receipt to response.
PostProtect(i, variant, e) ==
    /\ \E out \in {protect_endpoint(i, variant, e, rng)} :
         http' = [NoHttp EXCEPT !.phase = "done", !.path = "/protect",
                                !.payload = i, !.computed = out.computed,
                                !.resp = out.resp]
    /\ UNCHANGED << rng, last, memo, sim, box, store, limits >>

NextHttp ==
    \/ \E b \in ScoreBodies : PostScore(b)
    \/ \E b \in AmplitudeBodies : PostAmplitude(b)
    \/ \E i \in RequestPayloads : \E variant \in KemVariants :
           \E e \in Entropy : PostProtect(i, variant, e)

SpecHttp == InitHttp /\ [][NextHttp]_vars

\* --------------------------------------------------------- the rate limiter
\* QuantumRateLimiter.__init__(self, max_requests_per_minute: int = 30)
max_requests_per_minute == 30

\* Latest minute window the clock reaches, counted from the first.
MaxWindow == 2

\* request.client.host of the clients
Clients == {"10.0.0.1", "10.0.0.2"}

\* request.url.path of the requests
LimitedPaths == {"/score", "/amplitude"}
RequestPaths == LimitedPaths \cup {"/health"}

\* d.get(k, default) and d[k] = v on a dict
Get(d, k, default) == IF k \in DOMAIN d THEN d[k] ELSE default
Put(d, k, v) == [x \in DOMAIN d \cup {k} |-> IF x = k THEN v ELSE d[x]]

\* for window in list(client_requests.keys()):
\*     if window < minute_window: del client_requests[window]
CleanOldWindows(client_requests, minute_window) ==
    [w \in {x \in DOMAIN client_requests : x >= minute_window} |->
        client_requests[w]]

\* Mutant: the comparison with the limit is strict.
is_allowed_OneMore(requests, client_ip, minute_window, max_requests) ==
    LET client_requests ==
            CleanOldWindows(Get(requests, client_ip, EmptyDict), minute_window)
        current_requests == Get(client_requests, minute_window, 0)
    IN IF current_requests > max_requests
       THEN [allowed |-> FALSE,
             requests |-> Put(requests, client_ip, client_requests)]
       ELSE [allowed |-> TRUE,
             requests |-> Put(requests, client_ip,
                              Put(client_requests, minute_window,
                                  current_requests + 1))]

\* QuantumRateLimiter.is_allowed(client_ip) with the clock in minute_window,
\* on an instance whose dict is requests: what it returns and the dict
\* afterwards.  (The coroutine never awaits, so it runs as one step.)
is_allowed(requests, client_ip, minute_window, max_requests) ==
    LET client_requests ==
            CleanOldWindows(Get(requests, client_ip, EmptyDict), minute_window)
        current_requests == Get(client_requests, minute_window, 0)
    IN IF current_requests >= max_requests
       THEN [allowed |-> FALSE,
             requests |-> Put(requests, client_ip, client_requests)]
       ELSE [allowed |-> TRUE,
             requests |-> Put(requests, client_ip,
                              Put(client_requests, minute_window,
                                  current_requests + 1))]

InitLimiter ==
    /\ rng = 0
    /\ last = NoCall
    /\ memo = NoMemo
    /\ sim = NoSim
    /\ box = NoBox
    /\ http = NoHttp
    /\ store = NoStore
    /\ limits = NoLimits

\* A minute passes.  (granted counts, per client, the calls answered True in
\* the current window.)
Tick ==
    /\ limits.window < MaxWindow
    /\ limits' = [limits EXCEPT !.window = @ + 1, !.granted = EmptyDict,
                                !.client = "none", !.path = "",
                                !.allowed = FALSE, !.status = 0]
    /\ UNCHANGED << rng, last, memo, sim, box, http, store >>

\* await limiter.is_allowed(client_ip) on the one limiter of the process.
IsAllowed(client_ip) ==
    /\ \E r \in {is_allowed(limits.requests, client_ip, limits.window,
                            max_requests_per_minute)} :
         limits' = [limits EXCEPT
                      !.requests = r.requests, !.client = client_ip,
                      !.allowed = r.allowed,
                      !.granted = IF r.allowed
                                  THEN Put(@, client_ip, Get(@, client_ip, 0) + 1)
                                  ELSE @]
    /\ UNCHANGED << rng, last, memo, sim, box, http, store >>

NextLimiter ==
    \/ Tick
    \/ \E c \in Clients : IsAllowed(c)

SpecLimiter == InitLimiter /\ [][NextLimiter]_vars

\* quantum_computation_limiter(request, call_next) for a request of client_ip
\* to path: a limiter is created, asked once if the path is a limited one,
\* and dropped; a request it lets through gets the response of call_next
\* (status 200 stands for whatever the route answers).
quantum_computation_limiter(client_ip, path, minute_window) ==
    LET limiter == [max_requests |-> max_requests_per_minute,
                    requests |-> EmptyDict]
        r == is_allowed(limiter.requests, client_ip, minute_window,
                        limiter.max_requests)
    IN IF path \in LimitedPaths /\ ~r.allowed
       THEN [status |-> 429, passed |-> FALSE]
       ELSE [status |-> 200, passed |-> TRUE]

\* One request goes through the middleware.  (granted counts, per client,
\* the requests to limited paths let through in the current window; once a
\* client is one past the limit the model stops counting.)
LimitedRequest(client_ip, path) ==
    /\ Get(limits.granted, client_ip, 0) <= max_requests_per_minute
    /\ \E r \in {quantum_computation_limiter(client_ip, path, limits.window)} :
         limits' = [limits EXCEPT
                      !.client = client_ip, !.path = path,
                      !.allowed = r.passed, !.status = r.status,
                      !.granted = IF r.passed /\ path \in LimitedPaths
                                  THEN Put(@, client_ip, Get(@, client_ip, 0) + 1)
                                  ELSE @]
    /\ UNCHANGED << rng, last, memo, sim, box, http, store >>

NextRateLimit ==
    \/ Tick
    \/ \E c \in Clients : \E p \in RequestPaths : LimitedRequest(c, p)

SpecRateLimit == InitLimiter /\ [][NextRateLimit]_vars

\* -------------------------------------------------------- the metrics store
\* Most requests the process completes, most it has in flight at once, and
\* the longest a request takes, in ticks of the clock.
MaxCompleted == 4
MaxInFlight == 2
MaxTime == 2

\* process_time is the difference of two readings of the clock, a whole
\* number of ticks.  The averages are floats: they are kept in AvgGrid-ths
\* of a tick, each division rounded to the nearest of them.
AvgGrid == 4

\* request.url.path of the requests that are measured
MeasuredPaths == {"/score", "/health"}

\* x / n rounded to the nearest whole number, halves to the even one
RoundDiv(x, n) ==
    LET q == x \div n
        r == x % n
    IN IF 2 * r < n THEN q
       ELSE IF 2 * r > n THEN q + 1
       ELSE IF q % 2 = 0 THEN q ELSE q + 1

Min(a, b) == IF a <= b THEN a ELSE b
Max(a, b) == IF a >= b THEN a ELSE b

\* {"requests": 0, "avg_time": 0, "min_time": float('inf'), "max_time": 0}
NewEndpointStats ==
    [requests |-> 0, avg_time |-> 0, min_time |-> Infinity, max_time |-> 0]

\* Mutant: max_time keeps the latest time, not the largest.
UpdateEndpoint_LatestAsMax(stats, process_time) ==
    LET requests == stats.requests + 1
    IN [requests |-> requests,
        avg_time |-> RoundDiv(stats.avg_time * (requests - 1)
                                + process_time * AvgGrid, requests),
        min_time |-> Min(stats.min_time, process_time),
        max_time |-> process_time]

\* endpoint_stats["requests"] += 1 and the three updates that follow it
UpdateEndpoint(stats, process_time) ==
    LET requests == stats.requests + 1
    IN [requests |-> requests,
        avg_time |-> RoundDiv(stats.avg_time * (requests - 1)
                                + process_time * AvgGrid, requests),
        min_time |-> Min(stats.min_time, process_time),
        max_time |-> Max(stats.max_time, process_time)]

\* metrics_middleware from the return of call_next on: the store after the
\* request to path, which took process_time, has been counted.  (Nothing
\* is awaited between the first update and the last.)
UpdateMetrics(m, path, process_time) ==
    LET total_requests == m.total_requests + 1
        stats == Get(m.endpoint_stats, path, NewEndpointStats)
    IN [m EXCEPT
          !.total_requests = total_requests,
          !.avg_response_time =
              RoundDiv(m.avg_response_time * (total_requests - 1)
                         + process_time * AvgGrid, total_requests),
          !.endpoint_stats = Put(@, path, UpdateEndpoint(stats, process_time))]

RECURSIVE SumOver(_, _)
SumOver(d, keys) ==
    IF keys = {} THEN 0
    ELSE LET k == CHOOSE x \in keys : TRUE
         IN d[k] + SumOver(d, keys \ {k})

\* Requests between start_time = time.time() and the return of call_next.
InFlight == SumOver(store.pending, DOMAIN store.pending)

InitMetrics ==
    /\ rng = 0
    /\ last = NoCall
    /\ memo = NoMemo
    /\ sim = NoSim
    /\ box = NoBox
    /\ http = NoHttp
    /\ store = NoStore
    /\ limits = NoLimits

\* A request to path reaches metrics_middleware, which reads the clock and
\* awaits call_next.
ReceiveRequest(path) ==
    /\ InFlight < MaxInFlight
    /\ store.total_requests + InFlight < MaxCompleted
    /\ store' = [store EXCEPT
                   !.pending = Put(@, path, Get(@, path, 0) + 1)]
    /\ UNCHANGED << rng, last, memo, sim, box, http, limits >>

\* call_next returns for a request to path after process_time ticks, and
\* the middleware counts it.
CompleteRequest(path, process_time) ==
    /\ Get(store.pending, path, 0) > 0
    /\ store' = [UpdateMetrics(store, path, process_time) EXCEPT
                   !.pending = Put(@, path, @[path] - 1)]
    /\ UNCHANGED << rng, last, memo, sim, box, http, limits >>

NextMetrics ==
    \/ \E p \in MeasuredPaths : ReceiveRequest(p)
    \/ \E p \in MeasuredPaths : \E t \in 0..MaxTime : CompleteRequest(p, t)

SpecMetrics == InitMetrics /\ [][NextMetrics]_vars

\* ------------------------------------------------------------------ claims
Entries(probs) == Cardinality(DOMAIN probs.num)

C3_AmplifiedAboveHalf ==
    (last.op = "score" /\ last.n = 3 /\ last.target = 5) =>
        /\ last.outcome = "value"
        /\ 8 * last.num > last.den
        /\ 2 * last.num > last.den

\* search_score(3, 5) has returned.
C3_Witness ==
    last.op = "score" /\ last.n = 3 /\ last.target = 5 /\ last.outcome = "value"

C5_SingleQubitSimulates ==
    (last.op # "none" /\ last.n = 1 /\ last.target \in {0, 1}) =>
        /\ last.outcome = "value"
        /\ last.simulated
        /\ Entries(last.probs) = 2

C7_EstimateRepeatable ==
    [][(last.op = "estimate" /\ last'.op = "estimate" /\ last' # last
          /\ last'.n = last.n /\ last'.target = last.target
          /\ last'.shots = last.shots)
       => (last'.outcome = last.outcome /\ last'.num = last.num
             /\ last'.den = last.den)]_vars

\* C8: an amplitude_estimate call shares no generator state with any other
\* call: it leaves the process-wide generator as it found it.
C8_SamplingStateless ==
    (last.op = "estimate" /\ last.outcome = "value") => rng = last.rngBefore

\* C9: the estimate is unbiased.
\* A distribution in lowest terms (the denominator is a power of two).
RECURSIVE Lowest(_)
Lowest(p) ==
    IF p.den > 1 /\ \A i \in DOMAIN p.num : p.num[i] % 2 = 0
    THEN Lowest([num |-> [i \in DOMAIN p.num |-> p.num[i] \div 2],
                 den |-> p.den \div 2])
    ELSE p

\* The sum, over every sequence of `left` further draws after `seq`, of the
\* sequence's weight (the product of its draws' numerators) times the number
\* of hits the estimator counts in the whole sequence.
RECURSIVE WeightedHits(_, _, _, _)
RECURSIVE WeightedHitsFrom(_, _, _, _, _)
WeightedHits(p, t, left, seq) ==
    IF left = 0 THEN CountEqual(seq, t)
    ELSE WeightedHitsFrom(p, t, left, seq, Entries(p) - 1)
WeightedHitsFrom(p, t, left, seq, i) ==
    IF i < 0 THEN 0
    ELSE p.num[i] * WeightedHits(p, t, left - 1, Append(seq, i))
         + WeightedHitsFrom(p, t, left, seq, i - 1)

\* E[estimate] = WeightedHits / (shots * den^shots) equals num[t] / den.
UnbiasedAt(n, t, shots) ==
    LET e == EstimateResults[n][t][shots][0]
        s == ScoreResults[n][t]
        p == Lowest(e.probs)
    IN (e.outcome = "value" /\ s.outcome = "value") =>
        /\ WeightedHits(p, t, shots, << >>)
             = shots * p.num[t] * (p.den ^ (shots - 1))
        /\ p.num[t] * s.den = s.num * p.den

UnbiasedTable ==
    [n \in Qubits |-> [t \in 0..(Pow2(n) - 1) |-> [shots \in ShotCounts |->
        UnbiasedAt(n, t, shots)]]]

C10_InvalidTargetRejected ==
    (last.op = "score" /\ ~ValidArgs(last.n, last.target)) =>
        /\ last.outcome \notin {"value", "none"}
        /\ ~last.built
        /\ ~last.simulated

\* C11: amplitude_estimate with shots < 1 or with a target outside [0, 2^n)
\* is rejected before any simulation or sampling is done and never returns
\* a value.
C11_InvalidEstimateRejected ==
    (last.op = "estimate"
        /\ (last.shots < 1 \/ ~ValidArgs(last.n, last.target))) =>
        /\ last.outcome \notin {"value", "none"}
        /\ ~last.built
        /\ ~last.simulated
        /\ rng = last.rngBefore

\* C17: compute_quantum_score(3, 5) returns exactly 25/32 = 0.78125.
C17_ScoreThreeFive ==
    (last.op = "score" /\ last.n = 3 /\ last.target = 5) =>
        /\ last.outcome = "value"
        /\ 32 * last.num = 25 * last.den

\* compute_quantum_score(3, 5) has built, simulated and returned.
C17_Witness ==
    /\ last.op = "score" /\ last.n = 3 /\ last.target = 5
    /\ last.built /\ last.simulated /\ last.den > 0

\* Sum of the squared integer amplitudes of a vector.
SquaredMass(st) ==
    SumUpTo([i \in DOMAIN st.a |-> st.a[i] * st.a[i]],
            Cardinality(DOMAIN st.a) - 1)

\* C18: from the initial state, one Hadamard on every qubit 0..n-1 gives
\* the uniform superposition, every one of the 2^n amplitudes being
\* 1/sqrt(2^n), for every n >= 1.
C18_UniformSuperposition ==
    (sim.mode = "build" /\ sim.pc = sim.n /\ sim.gate.kind = "h") =>
        /\ DOMAIN sim.st.a = 0..(Pow2(sim.n) - 1)
        /\ \A i \in DOMAIN sim.st.a : sim.st.a[i] = 1
        /\ sim.st.k = sim.n

\* The last of three Hadamards has just been applied to a 3-qubit circuit.
C18_Witness ==
    /\ sim.mode = "build" /\ sim.n = 3 /\ sim.pc = 3
    /\ sim.gate = HGate(2)

\* C19: after every single gate of the built sequence, not only at the
\* end of the circuit, the squared magnitudes of the vector sum to 1.
C19_EveryGatePreservesMass ==
    (sim.mode = "build") => SquaredMass(sim.st) = Pow2(sim.st.k)

\* A 3-qubit build is in the middle of its diffusion, just after a
\* multi-controlled flip, with amplitudes of different magnitudes.
C19_Witness ==
    /\ sim.mode = "build" /\ sim.n = 3 /\ sim.gate.kind = "mcx"
    /\ sim.pc > Len(Superposition(3) \o Oracle(3, sim.target))
    /\ \E i, j \in DOMAIN sim.st.a :
           sim.st.a[i] * sim.st.a[i] # sim.st.a[j] * sim.st.a[j]

\* The amplitudes after the pairs (i, i XOR (1<<q)) with bit q of i clear
\* and every bit of C set in i have been exchanged, each exactly once.
PairsSwapped(a, C, q) ==
    [i \in DOMAIN a |->
        LET lo == IF Bit(i, q) = 0 THEN i ELSE FlipBit(i, q)
        IN IF \A c \in C : Bit(lo, c) = 1 THEN a[FlipBit(i, q)] ELSE a[i]]

\* A caller's circuit has just been handed the bit-flip gate sim'.gate.
FlipIssued ==
    /\ sim.mode = "free" /\ sim'.mode = "free"
    /\ sim'.gate.kind \in {"x", "mcx"}
    /\ (sim'.pc = sim.pc + 1 \/ sim'.err # "none")

\* C20: a multi-controlled bit-flip on q with control set C exchanges the
\* amplitudes at i and i XOR (1<<q) exactly once for every i whose bit q
\* is 0 and whose bits in C are all 1 and leaves the rest alone; with C
\* empty it is the plain bit-flip on q; applied twice, either gate gives
\* the original vector back.
C20_ControlledFlipSwapsPairs ==
    [][FlipIssued =>
          LET g == sim'.gate
          IN /\ sim'.err = "none"
             /\ sim'.st.a = PairsSwapped(sim.st.a, g.ctrls, g.q)
             /\ sim'.st.k = sim.st.k
             /\ (g.ctrls = {} => sim'.st = ApplyX(sim.st, g.q))
             /\ ApplyGate(sim'.st, g) = sim.st]_vars

\* C13: for every byte string p and every non-empty key k,
\* xor_decrypt(xor_encrypt(p, k), k) = p, xor_encrypt(xor_encrypt(p, k), k) = p
\* and the ciphertext is as long as the plaintext.
C13_XorDecryptInvertsEncrypt ==
    (box.phase \in {"encrypted", "decrypted", "reencrypted"}
        /\ Len(box.key) >= 1) =>
        /\ box.outcome = "value"
        /\ Len(box.ctext) = Len(box.plain)
        /\ (box.phase # "encrypted" => box.out = box.plain)

\* A plaintext longer than its key, with a key of two different bytes, was
\* changed by encryption and has been decrypted.
C13_Witness ==
    /\ box.phase = "decrypted"
    /\ Len(box.plain) = 3 /\ Len(box.key) = 2 /\ box.key[1] # box.key[2]
    /\ box.ctext # box.plain
    /\ box.out = box.plain

C14_ProtectAnswers200 ==
    (http.phase = "done" /\ http.path = "/protect") =>
        /\ http.resp.status = 200
        /\ "ciphertext_hex" \in http.resp.keys
        /\ http.computed

\* The request's bits, target (and shots) are within the API's limits.
ValidScoreRequest ==
    /\ http.path = "/score"
    /\ MinBits <= http.bits /\ http.bits <= ScoreMaxBits
    /\ 0 <= http.target /\ http.target < Pow2(http.bits)

ValidAmplitudeRequest ==
    /\ http.path = "/amplitude"
    /\ MinBits <= http.bits /\ http.bits <= AmplitudeMaxBits
    /\ 0 <= http.target /\ http.target < Pow2(http.bits)
    /\ MinShots <= http.shots /\ http.shots <= MaxRequestShots

\* C15: a POST /score with bits = 3, target = 5 (generally bits in 2..10
\* and 0 <= target < 2^bits) is answered with status 200 and a body
\* containing 'score'; a POST /amplitude with valid bits, target and shots
\* is answered with status 200 and a body containing 'estimated_probability'.
C15_ValidRequestsAnswer200 ==
    /\ (http.phase = "done" /\ ValidScoreRequest) =>
           http.resp.status = 200 /\ "score" \in http.resp.keys
    /\ (http.phase = "done" /\ ValidAmplitudeRequest) =>
           /\ http.resp.status = 200
           /\ "estimated_probability" \in http.resp.keys

\* The request of the API test, {'bits': 3, 'target': 5}, has been answered
\* with the score 25/32.
C15_Witness ==
    /\ http.phase = "done" /\ http.path = "/score"
    /\ http.bits = 3 /\ http.target = 5
    /\ http.resp.status = 200 /\ http.computed
    /\ 32 * http.resp.score.num = 25 * http.resp.score.den

\* C16: a /score or /amplitude request whose target is greater than
\* 2^bits - 1 is answered with HTTP status 400 and the detail 'Target ...
\* exceeds maximum ...', and no quantum computation is run for it.
C16_TargetTooLargeAnswers400 ==
    (/\ http.phase = "done"
     /\ http.path \in {"/score", "/amplitude"}
     /\ http.resp.status # 422
     /\ http.target > Pow2(http.bits) - 1) =>
        /\ http.resp.status = 400
        /\ http.resp.detail = "Target exceeds maximum"
        /\ ~http.computed

ScoreBelowRemembered ==
    LET d == IF last.den > memo.den THEN last.den ELSE memo.den
    IN last.num * (d \div last.den) < memo.num * (d \div memo.den)

RECURSIVE CountKind(_, _, _)
CountKind(gates, kind, i) ==
    IF i > Len(gates) THEN 0
    ELSE (IF gates[i].kind = kind THEN 1 ELSE 0) + CountKind(gates, kind, i + 1)

\* C23: whatever n, the circuit is the superposition followed by one oracle
\* and one diffusion (two multi-controlled flips in all); and of two scores
\* for valid targets over m < n qubits with m >= 3, the one over n qubits is
\* strictly smaller: every n > 3 scores below n = 3, and the score strictly
\* decreases as n grows.
C23_SingleIterationUnderAmplifies ==
    /\ (last.op = "score" /\ last.built)
       => LET qc == build_search_circuit(last.n, last.target)
          IN /\ qc.gates = Superposition(last.n) \o Oracle(last.n, last.target)
                              \o Diffusion(last.n)
             /\ CountKind(qc.gates, "mcx", 1) = 2
    /\ (/\ last.op = "score" /\ last.outcome = "value"
        /\ memo.op = "score" /\ memo.outcome = "value"
        /\ ValidArgs(last.n, last.target) /\ ValidArgs(memo.n, memo.target)
        /\ 3 <= memo.n /\ memo.n < last.n)
       => ScoreBelowRemembered

C23_Witness ==
    /\ last.op = "score" /\ last.outcome = "value" /\ last.n = 5
    /\ memo.op = "score" /\ memo.outcome = "value" /\ memo.n = 4
    /\ ValidArgs(last.n, last.target) /\ ValidArgs(memo.n, memo.target)
    /\ last.target # memo.target
    /\ ScoreBelowRemembered

\* C26: over n >= 2 qubits the score is the same for every valid target,
\* every state other than the target has one common probability, and the
\* score is (3N - 4)^2 / N^3 with N = 2^n, which is 1 for n = 2.
C26_ScoreIndependentOfTarget ==
    (last.op = "score" /\ last.outcome = "value" /\ last.n >= 2
        /\ ValidArgs(last.n, last.target))
    => LET N == Pow2(last.n)
       IN /\ (memo.op = "score" /\ memo.outcome = "value" /\ memo.n = last.n
                 /\ ValidArgs(memo.n, memo.target))
             => (last.num = memo.num /\ last.den = memo.den)
          /\ \A i, j \in DOMAIN last.probs.num \ {last.target} :
                last.probs.num[i] = last.probs.num[j]
          /\ last.den % (N * N * N) = 0
          /\ last.num = (3 * N - 4) * (3 * N - 4) * (last.den \div (N * N * N))
          /\ (last.n = 2 => last.num = last.den)

C26_Witness ==
    /\ last.op = "score" /\ last.outcome = "value" /\ last.n = 4
    /\ memo.op = "score" /\ memo.outcome = "value" /\ memo.n = 4
    /\ last.target = 9 /\ memo.target = 6
    /\ 256 * last.num = 121 * last.den
    /\ last.probs.num[0] > 0

\* The call just made had a negative target within -2^n..-1.
NegativeTargetCall ==
    /\ last.op = "score"
    /\ -Pow2(last.n) <= last.target /\ last.target < 0

\* The remembered call was over the same qubits for the valid target
\* t mod 2^n.
RememberedWrappedTarget ==
    /\ memo.op = "score" /\ memo.n = last.n
    /\ memo.target = last.target + Pow2(last.n)

\* C27: grover_score with a negative target -2^n <= t < 0 raises no error
\* and returns what it returns for the valid target t mod 2^n.
C27_NegativeTargetWraps ==
    NegativeTargetCall
    => /\ last.outcome = "value"
       /\ RememberedWrappedTarget
          => (memo.outcome = "value" /\ last.num = memo.num
                 /\ last.den = memo.den)

\* C25: a /score request gets past validation only with 2 <= bits <= 10
\* and target >= 0, an /amplitude request only with 2 <= bits <= 8,
\* target >= 0 and 100 <= shots <= 10000, an absent shots counting as 2000;
\* every other request is answered 422 with neither compute_quantum_score
\* nor estimate_amplitude called, so no computation is ever run for bits = 1,
\* a negative target or fewer than 100 shots.
C25_ValidationGuardsCore ==
    /\ (http.phase = "done" /\ http.path = "/score")
       => LET within == /\ 2 <= http.bits /\ http.bits <= 10
                        /\ http.target >= 0
          IN /\ within <=> http.resp.status # 422
             /\ ~within => ~http.computed
    /\ (http.phase = "done" /\ http.path = "/amplitude")
       => LET within == /\ 2 <= http.bits /\ http.bits <= 8
                        /\ http.target >= 0
                        /\ 100 <= http.shots /\ http.shots <= 10000
          IN /\ within <=> http.resp.status # 422
             /\ ~within => ~http.computed
             /\ http.defaulted => http.shots = 2000
    /\ (http.phase = "done" /\ http.computed
           /\ http.path \in {"/score", "/amplitude"})
       => /\ http.bits >= 2 /\ http.target >= 0
          /\ http.path = "/amplitude" => http.shots >= 100

\* A request without shots has been estimated with 2000 shots.
C25_Witness ==
    /\ http.phase = "done" /\ http.path = "/amplitude"
    /\ http.defaulted /\ http.shots = 2000 /\ http.bits = 2
    /\ http.resp.status = 200 /\ http.computed
    /\ http.resp.score.den = 2000

\* A keyless restore of a protected JSON-native dictionary has ended.
KeylessRestoreDone ==
    box.phase = "restored keyless" /\ JsonNative(Payloads[box.obj])

\* It returned the dictionary that was protected.
PayloadRecovered ==
    box.outcome = "value" /\ PyEq(box.restored, Payloads[box.obj])

\* The key protect_payload derived, and the serialised payload.
DerivedKey == fromhex(box.prot.key)
SerialisedPayload == encode(dumps(Payloads[box.obj]))

\* The derived key and b"0123456789abcdef" agree on every key byte the
\* payload's text reaches.
KeysAgreeWhereUsed ==
    \A j \in 1..Len(DerivedKey) :
        j <= Len(SerialisedPayload) => DerivedKey[j] = StubKey[j]

\* C30 as stated: the keyless restore recovers the payload exactly when
\* protect_payload derived the key b"0123456789abcdef", that is under the
\* stub shared secret, and under any other shared secret it does not.
C30_KeylessRecoversOnlyUnderStub ==
    KeylessRestoreDone
    => /\ PayloadRecovered <=> DerivedKey = StubKey
       /\ DerivedKey = StubKey <=> box.variant = "stub"

\* C30, amended: the keyless restore recovers the payload whenever the
\* derived key agrees with b"0123456789abcdef" on the bytes the payload's
\* text reaches, in particular always under the stub shared secret; when
\* the keys differ on such a byte, the text it decrypts is not the text
\* protect_payload serialised.
C30_KeylessRecoversWhereKeysAgree ==
    KeylessRestoreDone
    => /\ box.variant = "stub" => PayloadRecovered
       /\ KeysAgreeWhereUsed => PayloadRecovered
       /\ ~KeysAgreeWhereUsed
            => xor_decrypt(fromhex(box.prot.ciphertext_hex), StubKey)
                  # SerialisedPayload

\* {"x": 1} protected under a real shared secret other than the stub's has
\* been restored without the key.
C30_Witness ==
    /\ KeylessRestoreDone /\ box.variant = "real" /\ box.obj = 2
    /\ DerivedKey # StubKey
    /\ PayloadRecovered

\* A call of is_allowed has just returned to limits'.client.
CallReturned ==
    limits'.window = limits.window /\ limits' # limits

\* The counters the limiter holds for client c.
CountersOf(requests, c) == Get(requests, c, EmptyDict)

\* C28: on one QuantumRateLimiter, at most max_requests calls per client and
\* minute window return True and no stored count exceeds max_requests; a
\* denied call leaves every count as it was; a call changes the counters of
\* its own client only; and a call in a window later than all the client's
\* counters deletes them, is allowed and starts the new window at 1.
C28_LimiterCounts ==
    /\ [](\A c \in Clients :
            /\ Get(limits.granted, c, 0) <= max_requests_per_minute
            /\ \A w \in DOMAIN CountersOf(limits.requests, c) :
                  limits.requests[c][w] <= max_requests_per_minute)
    /\ [][CallReturned =>
            LET c == limits'.client
                before == CountersOf(limits.requests, c)
                after == CountersOf(limits'.requests, c)
            IN /\ ~limits'.allowed => limits'.requests = limits.requests
               /\ \A d \in Clients \ {c} :
                     /\ d \in DOMAIN limits'.requests
                           <=> d \in DOMAIN limits.requests
                     /\ CountersOf(limits'.requests, d)
                           = CountersOf(limits.requests, d)
               /\ limits'.allowed =>
                     after[limits.window] = Get(before, limits.window, 0) + 1
               /\ (\A w \in DOMAIN before : w < limits.window) =>
                     /\ limits'.allowed
                     /\ DOMAIN after = {limits.window}
                     /\ after[limits.window] = 1]_vars

\* In the second minute a client has used up its 30 calls and is denied,
\* while the other client's counter of the first minute is still stored.
C28_Witness ==
    /\ limits.window = 1 /\ limits.client = "10.0.0.1" /\ ~limits.allowed
    /\ DOMAIN limits.requests = Clients
    /\ DOMAIN limits.requests["10.0.0.1"] = {1}
    /\ limits.requests["10.0.0.1"][1] = max_requests_per_minute
    /\ limits.granted["10.0.0.1"] = max_requests_per_minute
    /\ DOMAIN limits.requests["10.0.0.2"] = {0}

\* C24: a client that has had 30 requests to /score or /amplitude let
\* through in the current minute window gets 429 for the next one, so no
\* client ever has more than 30 let through in one window; and a request to
\* any other path is never answered 429 by the middleware.
C24_ThirtyFirstRequestRejected ==
    /\ \A c \in Clients :
          Get(limits.granted, c, 0) <= max_requests_per_minute
    /\ limits.status = 429 => limits.path \in LimitedPaths

\* endpoint_stats[path]["requests"], 0 for a path not recorded.
RequestsOf(m, path) ==
    IF path \in DOMAIN m.endpoint_stats THEN m.endpoint_stats[path].requests
                                        ELSE 0

RecordedRequests(m) ==
    SumOver([p \in DOMAIN m.endpoint_stats |-> m.endpoint_stats[p].requests],
            DOMAIN m.endpoint_stats)

\* C29: however the requests interleave, total_requests is the sum of the
\* recorded paths' request counts, every recorded path has at least one
\* request and min_time <= avg_time <= max_time; and each completed request
\* raises total_requests by one and the count of exactly one path by one.
C29_MetricsConsistent ==
    /\ [](/\ store.total_requests = RecordedRequests(store)
          /\ \A p \in DOMAIN store.endpoint_stats :
                LET s == store.endpoint_stats[p]
                IN /\ s.requests >= 1
                   /\ s.min_time * AvgGrid <= s.avg_time
                   /\ s.avg_time <= s.max_time * AvgGrid)
    /\ [][store'.total_requests # store.total_requests =>
            /\ store'.total_requests = store.total_requests + 1
            /\ \E p \in MeasuredPaths :
                  /\ RequestsOf(store', p) = RequestsOf(store, p) + 1
                  /\ \A q \in MeasuredPaths \ {p} :
                        RequestsOf(store', q) = RequestsOf(store, q)]_vars

\* Four requests to two paths have been counted; on one path the times
\* differ and the average lies strictly between the least and the largest.
C29_Witness ==
    /\ store.total_requests = 4
    /\ DOMAIN store.endpoint_stats = MeasuredPaths
    /\ store.endpoint_stats["/score"].requests = 3
    /\ store.endpoint_stats["/score"].min_time = 0
    /\ store.endpoint_stats["/score"].max_time = 2
    /\ store.endpoint_stats["/score"].avg_time > 0
    /\ store.endpoint_stats["/score"].avg_time < 2 * AvgGrid
    /\ store.endpoint_stats["/health"].requests = 1

====
